---- MODULE Spec2Model ----
(***************************************************************************)
(* Model of the pixels-rag answering service (src/server.py): the          *)
(* context assembler truncate_documents, the retry controller with_retry   *)
(* and the HTTP handler mainroute.                                         *)
(*                                                                         *)
(* Texts are sequences of one-character strings.  The tokenizer is the     *)
(* tiktoken encoder the handler creates; it is modelled as a greedy        *)
(* longest-match encoder over a small merge vocabulary, so that the token  *)
(* count of a concatenation is not the sum of the counts of its parts.     *)
(***************************************************************************)
EXTENDS Integers, Sequences, FiniteSets, TLC

(***************************************************************************)
(* Bounds of the model.                                                    *)
(***************************************************************************)
MaxDocs == 3
MaxBudget == 10

(***************************************************************************)
(* Texts and the tokenizer.                                                *)
(***************************************************************************)
NL == "\n"

Encodings == {"o200k_base", "cl100k_base"}

\* The multi-character tokens of an encoding (every single character is a
\* token of both).  A space merges with the word after it, and whitespace
\* before a line break merges with the line break.
Vocab(enc) ==
    IF enc = "o200k_base"
    THEN { <<" ", "a">>, <<" ", "c">>, <<"a", "c">>, <<"1", "2">>, <<" ", NL>> }
    ELSE { <<" ", "a">>, <<" ", "c">>, <<"1", "2">>, <<" ", NL>> }

\* Length of the first token of a non-empty text: the longest prefix in the
\* vocabulary, a single character when no longer prefix is.
FirstTokenLen(text, enc) ==
    LET fits == { l \in 1..Len(text) : l = 1 \/ SubSeq(text, 1, l) \in Vocab(enc) }
    IN  CHOOSE l \in fits : \A m \in fits : m <= l

RECURSIVE Encode(_, _)
Encode(text, enc) ==
    IF text = <<>> THEN <<>>
    ELSE LET n == FirstTokenLen(text, enc)
         IN  <<SubSeq(text, 1, n)>> \o Encode(SubSeq(text, n + 1, Len(text)), enc)

token_count(text, enc) == Len(Encode(text, enc))

\* Mutant of Render: the date is left out of the entry.
RenderContentOnly(date, content) == content

\* f"{date}: {content}"
Render(date, content) == date \o <<":", " ">> \o content

\* sep.join(parts)
RECURSIVE Join(_, _)
Join(parts, sep) ==
    IF parts = <<>> THEN <<>>
    ELSE IF Len(parts) = 1 THEN parts[1]
    ELSE parts[1] \o <<sep>> \o Join(Tail(parts), sep)

(***************************************************************************)
(* truncate_documents: the loop, from document i on, with the running      *)
(* total and the entries selected so far.  A document is <<date, content>>.*)
(***************************************************************************)
\* Mutant of OverBudget: the entry landing exactly on the budget is refused.
OverBudgetAtBoundary(total, t, budget) == total + t >= budget

OverBudget(total, t, budget) == total + t > budget

\* Mutant of TruncLoop: a too-large entry is skipped and the loop goes on.
RECURSIVE TruncLoopSkipping(_, _, _, _, _, _)
TruncLoopSkipping(docs, enc, budget, i, total, selected) ==
    IF i > Len(docs) THEN [total |-> total, selected |-> selected]
    ELSE LET entry == Render(docs[i][1], docs[i][2])
             t == token_count(entry, enc)
         IN  IF OverBudget(total, t, budget)
             THEN TruncLoopSkipping(docs, enc, budget, i + 1, total, selected)
             ELSE TruncLoopSkipping(docs, enc, budget, i + 1, total + t,
                                    Append(selected, entry))

RECURSIVE TruncLoop(_, _, _, _, _, _)
TruncLoop(docs, enc, budget, i, total, selected) ==
    IF i > Len(docs) THEN [total |-> total, selected |-> selected]
    ELSE LET entry == Render(docs[i][1], docs[i][2])
             t == token_count(entry, enc)
         IN  IF OverBudget(total, t, budget)
             THEN [total |-> total, selected |-> selected]
             ELSE TruncLoop(docs, enc, budget, i + 1, total + t,
                            Append(selected, entry))

SelectedEntries(docs, enc, budget) == TruncLoop(docs, enc, budget, 1, 0, <<>>).selected

truncate_documents(docs, enc, budget) == Join(SelectedEntries(docs, enc, budget), NL)

(***************************************************************************)
(* Inputs of the model.                                                    *)
(***************************************************************************)
Dates == { <<"7">>, <<"1", "2">> }

Contents == { <<>>, <<"a">>, <<"a", " ">>, <<"c", "a", "c">> }

Documents == Dates \X Contents

SeqsUpTo(S, n) == UNION { [1..k -> S] : k \in 0..n }

Budgets == 0..MaxBudget

(***************************************************************************)
(* with_retry: the provider's answers and the retry frame.                 *)
(***************************************************************************)
DefaultMaxRetries == 10
BackoffCap == 60
MaxRetriesTried == 3

\* The values of max_retries tried: negative, zero, small, and the default.
RetryLimits == (-1..MaxRetriesTried) \cup {DefaultMaxRetries}

Absent == "<absent>"

\* Reading the header raises (KeyError, AttributeError).
Unreadable == "<unreadable>"

\* The values a retry-timing header may carry: none, a number of seconds
\* below or above the backoff cap, or a text float() cannot parse (an HTTP
\* date, say); or the headers cannot be read.
RetryAfterValues == {Absent, "7", "soon", Unreadable}
ResetAfterValues == {Absent, "90", "soon"}

\* float(text) succeeds
Parseable(text) == text \in {"7", "90"}

\* float(text), for a text it parses
FloatOf(text) == IF text = "7" THEN 7 ELSE 90

NoError ==
    [kind |-> "none", id |-> 0, has_response |-> FALSE,
     retry_after |-> Absent, reset_after |-> Absent]

\* The errors the n-th invocation of the wrapped call may raise.
RateLimitErrors(n) ==
    { [kind |-> "RateLimitError", id |-> n, has_response |-> FALSE,
       retry_after |-> Absent, reset_after |-> Absent] }
    \cup
    { [kind |-> "RateLimitError", id |-> n, has_response |-> TRUE,
       retry_after |-> ra, reset_after |-> rs] :
         ra \in RetryAfterValues, rs \in ResetAfterValues }

OtherError(n) ==
    [kind |-> "APIError", id |-> n, has_response |-> FALSE,
     retry_after |-> Absent, reset_after |-> Absent]

Success(n) ==
    [kind |-> "ok", id |-> n, has_response |-> FALSE,
     retry_after |-> Absent, reset_after |-> Absent]

\* What the n-th invocation of the wrapped call may do.
ProviderOutcomes(n) == {Success(n)} \cup RateLimitErrors(n) \cup {OtherError(n)}

\* How a with_retry call has ended: not yet, with the value the n-th
\* invocation returned, with None, or with an exception.
NoResult == [how |-> "pending", value |-> 0, e |-> NoError]
Returned(n) == [how |-> "return", value |-> n, e |-> NoError]
ReturnedNone == [how |-> "return None", value |-> 0, e |-> NoError]
Raised(e) == [how |-> "raise", value |-> 0, e |-> e]

\* The frame of one with_retry call: its locals, where it is, and counters
\* of what it has done (calls, sleeps), of what the provider did, and of
\* the rate-limit errors the request's earlier calls met (earlier).
NewFrame(api_call, max_retries) ==
    [pc |-> "loop", api_call |-> api_call, max_retries |-> max_retries,
     backoff |-> 1, retry_count |-> 0, wait_time |-> 0, e |-> NoError,
     result |-> NoResult,
     calls |-> 0, sleeps |-> 0, prev_wait |-> 0, from_header |-> FALSE,
     rate_limited |-> 0, other_errors |-> 0, earlier |-> 0]

IdleFrame == [NewFrame("none", 0) EXCEPT !.pc = "idle"]

\* Mutant of StartCall: backoff and retry_count are module-level variables,
\* so that entering with_retry resets them for every call in progress.
StartCallShared(frames, r, api_call, max_retries) ==
    [x \in DOMAIN frames |->
        IF x = r
        THEN [NewFrame(api_call, max_retries) EXCEPT
                 !.earlier = frames[r].earlier + frames[r].rate_limited]
        ELSE [frames[x] EXCEPT !.backoff = 1, !.retry_count = 0]]

\* Request r enters with_retry: the locals backoff and retry_count of the
\* new frame are initialised, no other frame is touched.
StartCall(frames, r, api_call, max_retries) ==
    [frames EXCEPT ![r] =
        [NewFrame(api_call, max_retries) EXCEPT
            !.earlier = frames[r].earlier + frames[r].rate_limited]]

\* while retry_count < max_retries
LoopContinues(retry_count, max_retries) == retry_count < max_retries

\* Mutant of IsRateLimit: every error is retried.
IsAnyError(o) == o.kind # "ok"

\* except RateLimitError as e
IsRateLimit(o) == o.kind = "RateLimitError"

\* Mutant of Exhausted: one more retry than max_retries.
ExhaustedLate(retry_count, max_retries) == retry_count > max_retries

\* if retry_count >= max_retries: raise
Exhausted(retry_count, max_retries) == retry_count >= max_retries

\* Mutant of NextBackoff: the backoff is never doubled.
NextBackoffFrozen(backoff) == backoff

\* Mutant of NextBackoff: the doubling is not capped.
NextBackoffUncapped(backoff) == backoff * 2

\* backoff = min(backoff * 2, 60)
NextBackoff(backoff) == IF backoff * 2 < BackoffCap THEN backoff * 2 ELSE BackoffCap

\* The header with_retry reads its wait from, if any.
TimingHeader(e) ==
    IF ~e.has_response THEN Absent
    ELSE IF e.retry_after # Absent THEN e.retry_after
    ELSE e.reset_after

\* Mutant of WaitTime: x-ratelimit-reset-after is looked at first.
WaitTimeResetFirst(e, backoff) ==
    IF ~e.has_response THEN backoff
    ELSE IF e.reset_after # Absent
         THEN (IF Parseable(e.reset_after) THEN FloatOf(e.reset_after) ELSE backoff)
    ELSE IF e.retry_after # Absent
         THEN (IF Parseable(e.retry_after) THEN FloatOf(e.retry_after) ELSE backoff)
    ELSE backoff

\* Mutant of WaitTime: a retry-after that does not parse is passed over and
\* x-ratelimit-reset-after is used.
WaitTimeNextHeader(e, backoff) ==
    IF ~e.has_response THEN backoff
    ELSE IF e.retry_after # Absent /\ Parseable(e.retry_after)
         THEN FloatOf(e.retry_after)
    ELSE IF e.reset_after # Absent /\ Parseable(e.reset_after)
         THEN FloatOf(e.reset_after)
    ELSE backoff

\* wait_time: the backoff, unless a timing header is found and parses; a
\* header float() rejects raises ValueError, which leaves the backoff.
WaitTime(e, backoff) ==
    IF ~e.has_response THEN backoff
    ELSE IF e.retry_after # Absent
         THEN (IF Parseable(e.retry_after) THEN FloatOf(e.retry_after) ELSE backoff)
    ELSE IF e.reset_after # Absent
         THEN (IF Parseable(e.reset_after) THEN FloatOf(e.reset_after) ELSE backoff)
    ELSE backoff

\* The frame after the wrapped call's n-th invocation did o.
AfterCall(f, o) ==
    LET g == [f EXCEPT !.calls = o.id,
                       !.rate_limited = IF o.kind = "RateLimitError" THEN @ + 1 ELSE @,
                       !.other_errors = IF o.kind = "APIError" THEN @ + 1 ELSE @]
    IN  IF o.kind = "ok" THEN [g EXCEPT !.pc = "returned", !.result = Returned(o.id)]
        ELSE IF IsRateLimit(o) THEN [g EXCEPT !.pc = "except", !.e = o]
        ELSE [g EXCEPT !.pc = "raised", !.result = Raised(o)]

\* The frame after the except RateLimitError block, up to the sleep.
AfterRateLimit(f) ==
    LET n == f.retry_count + 1
    IN  IF Exhausted(n, f.max_retries)
        THEN [f EXCEPT !.retry_count = n, !.pc = "raised", !.result = Raised(f.e)]
        ELSE [f EXCEPT !.retry_count = n, !.pc = "sleep",
                       !.wait_time = WaitTime(f.e, f.backoff),
                       !.prev_wait = f.wait_time,
                       !.sleeps = @ + 1,
                       !.from_header =
                           @ \/ (TimingHeader(f.e) # Absent /\ Parseable(TimingHeader(f.e)))]

\* The frame after sleep(wait_time) and the doubling of the backoff.
AfterSleep(f) ==
    [f EXCEPT !.pc = "loop", !.e = NoError, !.backoff = NextBackoff(f.backoff)]

(***************************************************************************)
(* mainroute: requests, store answers and responses.                       *)
(***************************************************************************)
TPM_BUDGET == 400000
ReservedTokens == 4000

\* context_budget = TPM_BUDGET - 4_000
context_budget == TPM_BUDGET - ReservedTokens

Requests == {"r1"}

None == "<None>"

\* request.args.get("prompt"): None when the parameter is missing.
Prompts == {None, "", "What did I do on my birthday?"}

\* Mutant of Falsy: only a missing prompt is refused.
IsNone(value) == value = None

\* not prompt
Falsy(value) == value = None \/ value = ""

\* The entries the store holds, and what collection.query may give back as
\* query_result["metadatas"]: None, no list, one empty list, or one list of
\* up to MaxDocs records; a record may lack its date.
Corpus == { <<<<"7">>, <<"a", " ">>>>, <<<<"1", "2">>, <<"c", "a", "c">>>> }

StoreAnswers ==
    { [kind |-> k, docs |-> <<>>] : k \in {"None", "no list", "empty list"} }
    \cup { [kind |-> "records", docs |-> d] : d \in SeqsUpTo(Corpus, MaxDocs) \ {<<>>} }
    \cup { [kind |-> "record without date", docs |-> <<d>>] : d \in Corpus }

NoAnswer == [kind |-> "not queried", docs |-> <<>>]

\* Mutant of NoMatches: the test for no matches is left out.
NoMatchesNever(answer) == FALSE

\* Mutant of NoMatches: the empty first list is not looked at.
NoMatchesOuterOnly(answer) == answer.kind \in {"None", "no list"}

\* not query_result["metadatas"] or not query_result["metadatas"][0]
NoMatches(answer) == answer.kind \in {"None", "no list", "empty list"}

MissingPromptResponse ==
    [status |-> 400,
     body |-> [text |-> "Please provide a prompt using the 'prompt' query parameter.",
               detail |-> ""]]

NoResultsResponse ==
    [status |-> 200, body |-> [text |-> "No relevant diary entries found.", detail |-> ""]]

\* Mutant of ErrorResponse: the failure is answered as a success.
ErrorResponseAsSuccess(description) ==
    [status |-> 200, body |-> [text |-> "An error occurred: ", detail |-> description]]

\* return f"An error occurred: {str(e)}", 500
ErrorResponse(description) ==
    [status |-> 500, body |-> [text |-> "An error occurred: ", detail |-> description]]

AnswerResponse(text) == [status |-> 200, body |-> [text |-> text, detail |-> ""]]

\* resp.choices[0].message.content: a text, or None
CompletionContents == {"It was a quiet day.", None}

\* str(e) of the error a with_retry call raised
Describe(e) == e.kind

\* A request: the handler's locals, where it is, its responses, the steps
\* it has completed in their order (trace), and what its provider calls
\* did (provider_failed: some invocation raised; chat_calls: invocations of
\* the completion provider).
NewRequest(prompt) ==
    [pc |-> "start", prompt |-> prompt, enc |-> None, answer |-> NoAnswer,
     knowledge |-> <<>>, response_text |-> None, e |-> None, responses |-> <<>>,
     trace |-> <<>>, provider_failed |-> FALSE, chat_calls |-> 0]

\* The request after a with_retry call of it has ended with frame f.
Account(q, f) ==
    [q EXCEPT !.provider_failed = @ \/ f.rate_limited + f.other_errors > 0,
              !.chat_calls = IF f.api_call = "chat.completions.create" THEN f.calls ELSE @]

VARIABLES in_docs, in_enc, in_budget, t_pc, out_selected, out_block,
          frame, called, rq, bot, console, channel

truncVars == <<in_docs, in_enc, in_budget, t_pc, out_selected, out_block>>

retryVars == <<frame, called>>

routeVars == <<rq>>

relayVars == <<bot, console, channel>>

vars == <<truncVars, retryVars, routeVars, relayVars>>

\* The relay has received no message: nothing displayed, nothing posted.
RelayIdle ==
    /\ bot = <<>>
    /\ console = [last |-> None, pending |-> {}]
    /\ channel = <<>>

(***************************************************************************)
(* The context assembler on its own: truncate_documents applied to any     *)
(* documents, encoder and budget.                                          *)
(***************************************************************************)
TruncIdle ==
    /\ in_docs = <<>>
    /\ in_enc = "o200k_base"
    /\ in_budget = 0
    /\ t_pc = "idle"
    /\ out_selected = <<>>
    /\ out_block = <<>>

InitTrunc ==
    /\ in_docs \in SeqsUpTo(Documents, MaxDocs)
    /\ in_enc \in Encodings
    /\ in_budget \in Budgets
    /\ t_pc = "ready"
    /\ out_selected = <<>>
    /\ out_block = <<>>
    /\ frame = <<>>
    /\ called = <<>>
    /\ rq = <<>>
    /\ RelayIdle

TruncateCall ==
    /\ t_pc = "ready"
    /\ t_pc' = "done"
    /\ out_selected' = SelectedEntries(in_docs, in_enc, in_budget)
    /\ out_block' = truncate_documents(in_docs, in_enc, in_budget)
    /\ UNCHANGED <<in_docs, in_enc, in_budget, retryVars, routeVars, relayVars>>

SpecTrunc == InitTrunc /\ [][TruncateCall]_vars

(***************************************************************************)
(* with_retry, one step at a time, for the call of request r.              *)
(***************************************************************************)
\* The loop test and, when it passes, one invocation of the wrapped call;
\* when it does not pass the function falls off its end and returns None.
Attempt(r) ==
    /\ frame[r].pc = "loop"
    /\ IF LoopContinues(frame[r].retry_count, frame[r].max_retries)
       THEN /\ \E o \in ProviderOutcomes(frame[r].calls + 1) :
                  frame' = [frame EXCEPT ![r] = AfterCall(@, o)]
            /\ called' = [called EXCEPT ![r] = @ \cup {frame[r].api_call}]
       ELSE /\ frame' = [frame EXCEPT ![r].pc = "returned", ![r].result = ReturnedNone]
            /\ UNCHANGED called
    /\ UNCHANGED <<truncVars, routeVars, relayVars>>

\* The except RateLimitError block: count, give up or choose the wait.
HandleRateLimit(r) ==
    /\ frame[r].pc = "except"
    /\ frame' = [frame EXCEPT ![r] = AfterRateLimit(@)]
    /\ UNCHANGED <<called, truncVars, routeVars, relayVars>>

\* sleep(wait_time) ends; the backoff doubles.
WakeUp(r) ==
    /\ frame[r].pc = "sleep"
    /\ frame' = [frame EXCEPT ![r] = AfterSleep(@)]
    /\ UNCHANGED <<called, truncVars, routeVars, relayVars>>

\* with_retry on its own: one call, for every value of max_retries tried.
InitRetry ==
    /\ TruncIdle
    /\ \E m \in RetryLimits : frame = [r \in Requests |-> NewFrame("probe", m)]
    /\ called = [r \in Requests |-> {}]
    /\ rq = <<>>
    /\ RelayIdle

NextRetry ==
    \/ \E r \in DOMAIN frame : Attempt(r)
    \/ \E r \in DOMAIN frame : HandleRateLimit(r)
    \/ \E r \in DOMAIN frame : WakeUp(r)

SpecRetry == InitRetry /\ [][NextRetry]_vars

(***************************************************************************)
(* The two with_retry calls of mainroute, for two requests handled at the  *)
(* same time (one thread each): the embedding call, then the completion    *)
(* call when the embedding call has returned.                              *)
(***************************************************************************)
ConcurrentRequests == {"r1", "r2"}

\* The max_retries the concurrent calls are given.
MaxConcurrentRetries == 2
ConcurrentRetryLimits == 1..MaxConcurrentRetries

\* with_retry(client.embeddings.create, ...)
BeginEmbedding(r) ==
    /\ frame[r].pc = "idle"
    /\ called[r] = {}
    /\ \E m \in ConcurrentRetryLimits :
          frame' = StartCall(frame, r, "embeddings.create", m)
    /\ UNCHANGED <<called, truncVars, routeVars, relayVars>>

\* with_retry(client.chat.completions.create, ...)
BeginCompletion(r) ==
    /\ frame[r].pc = "returned"
    /\ frame[r].api_call = "embeddings.create"
    /\ frame[r].result.how = "return"
    /\ frame' = StartCall(frame, r, "chat.completions.create", frame[r].max_retries)
    /\ UNCHANGED <<called, truncVars, routeVars, relayVars>>

InitConcurrent ==
    /\ TruncIdle
    /\ frame = [r \in ConcurrentRequests |-> IdleFrame]
    /\ called = [r \in ConcurrentRequests |-> {}]
    /\ rq = <<>>
    /\ RelayIdle

NextConcurrent ==
    \/ \E r \in DOMAIN frame : BeginEmbedding(r)
    \/ \E r \in DOMAIN frame : BeginCompletion(r)
    \/ \E r \in DOMAIN frame : Attempt(r)
    \/ \E r \in DOMAIN frame : HandleRateLimit(r)
    \/ \E r \in DOMAIN frame : WakeUp(r)

SpecConcurrent == InitConcurrent /\ [][NextConcurrent]_vars

(***************************************************************************)
(* mainroute, one step at a time, for request r.                           *)
(***************************************************************************)
Respond(q, response) ==
    [q EXCEPT !.pc = "done", !.responses = Append(@, response),
              !.trace = Append(@, "response")]

Completed(q, step) == [q EXCEPT !.trace = Append(@, step)]

Fail(q, description) == [q EXCEPT !.pc = "except", !.e = description]

\* The prompt check.
Receive(r) ==
    /\ rq[r].pc = "start"
    /\ rq' = [rq EXCEPT ![r] =
                IF Falsy(@.prompt) THEN Respond(@, MissingPromptResponse)
                ELSE [@ EXCEPT !.pc = "tokenizer"]]
    /\ UNCHANGED <<truncVars, retryVars, relayVars>>

\* encoding_for_model(MODEL), get_encoding("cl100k_base") when it raises
\* KeyError; then with_retry is entered for the embedding.
CreateEncoder(r) ==
    /\ rq[r].pc = "tokenizer"
    /\ \E known \in {"known", "KeyError", "error"}, fallback \in {"ok", "error"} :
          IF known = "known" \/ (known = "KeyError" /\ fallback = "ok")
          THEN /\ rq' = [rq EXCEPT ![r].pc = "embedding",
                                   ![r].enc = IF known = "known" THEN "o200k_base"
                                              ELSE "cl100k_base"]
               /\ frame' = StartCall(frame, r, "embeddings.create", DefaultMaxRetries)
          ELSE /\ rq' = [rq EXCEPT ![r] = Fail(@, "tokenizer unavailable")]
               /\ UNCHANGED frame
    /\ UNCHANGED <<truncVars, called, relayVars>>

\* with_retry has ended for the embedding call.
EmbeddingDone(r) ==
    /\ rq[r].pc = "embedding"
    /\ frame[r].pc \in {"returned", "raised"}
    /\ rq' = [rq EXCEPT ![r] =
                IF frame[r].result.how = "raise"
                THEN Fail(Account(@, frame[r]), Describe(frame[r].result.e))
                ELSE IF frame[r].result.how = "return None"
                THEN Fail(Account(@, frame[r]), "AttributeError")
                ELSE [Completed(Account(@, frame[r]), "embed") EXCEPT !.pc = "query"]]
    /\ frame' = [frame EXCEPT ![r] = IdleFrame]
    /\ UNCHANGED <<truncVars, called, relayVars>>

\* collection.query and the test for no matches.
QueryStore(r) ==
    /\ rq[r].pc = "query"
    /\ called' = [called EXCEPT ![r] = @ \cup {"collection.query"}]
    /\ \/ rq' = [rq EXCEPT ![r] = Fail(@, "store unavailable")]
       \/ \E answer \in StoreAnswers :
             rq' = [rq EXCEPT ![r] =
                      IF NoMatches(answer)
                      THEN Respond([Completed(@, "query") EXCEPT !.answer = answer],
                                   NoResultsResponse)
                      ELSE [Completed(@, "query") EXCEPT !.answer = answer,
                                                         !.pc = "assemble"]]
    /\ UNCHANGED <<truncVars, frame, relayVars>>

\* docs, the system prompt, truncate_documents and the messages; then
\* with_retry is entered for the completion.
Assemble(r) ==
    /\ rq[r].pc = "assemble"
    /\ IF rq[r].answer.kind = "record without date"
       THEN /\ rq' = [rq EXCEPT ![r] = Fail(@, "KeyError: 'date'")]
            /\ UNCHANGED frame
       ELSE /\ rq' = [rq EXCEPT ![r] =
                          [Completed(@, "truncate") EXCEPT
                              !.pc = "completing",
                              !.knowledge =
                                  truncate_documents(rq[r].answer.docs, rq[r].enc,
                                                     context_budget)]]
            /\ frame' = StartCall(frame, r, "chat.completions.create",
                                   DefaultMaxRetries)
    /\ UNCHANGED <<truncVars, called, relayVars>>

\* with_retry has ended for the completion call; the first choice's text.
CompletionDone(r) ==
    /\ rq[r].pc = "completing"
    /\ frame[r].pc \in {"returned", "raised"}
    /\ \E content \in CompletionContents :
          rq' = [rq EXCEPT ![r] =
                   IF frame[r].result.how = "raise"
                   THEN Fail(Account(@, frame[r]), Describe(frame[r].result.e))
                   ELSE IF frame[r].result.how = "return None"
                   THEN Fail(Account(@, frame[r]), "AttributeError")
                   ELSE IF content = None
                   THEN Fail(Account(@, frame[r]),
                             "TypeError: object of type 'NoneType' has no len()")
                   ELSE Respond([Completed(Account(@, frame[r]), "completion")
                                    EXCEPT !.response_text = content],
                                AnswerResponse(content))]
    /\ frame' = [frame EXCEPT ![r] = IdleFrame]
    /\ UNCHANGED <<truncVars, called, relayVars>>

\* except Exception as e
HandleException(r) ==
    /\ rq[r].pc = "except"
    /\ rq' = [rq EXCEPT ![r] = Respond(@, ErrorResponse(@.e))]
    /\ UNCHANGED <<truncVars, retryVars, relayVars>>

Init ==
    /\ TruncIdle
    /\ frame = [r \in Requests |-> IdleFrame]
    /\ called = [r \in Requests |-> {}]
    /\ rq \in [Requests -> {NewRequest(p) : p \in Prompts}]
    /\ RelayIdle

Next ==
    \/ \E r \in DOMAIN rq : Receive(r)
    \/ \E r \in DOMAIN rq : CreateEncoder(r)
    \/ \E r \in DOMAIN rq : EmbeddingDone(r)
    \/ \E r \in DOMAIN rq : QueryStore(r)
    \/ \E r \in DOMAIN rq : Assemble(r)
    \/ \E r \in DOMAIN rq : CompletionDone(r)
    \/ \E r \in DOMAIN rq : HandleException(r)
    \/ \E r \in DOMAIN rq : Attempt(r)
    \/ \E r \in DOMAIN rq : HandleRateLimit(r)
    \/ \E r \in DOMAIN rq : WakeUp(r)

Spec == Init /\ [][Next]_vars

(***************************************************************************)
(* The chat relay (discordbot.py): messages, texts and the console.        *)
(***************************************************************************)
ALLOWED_GUILD_ID == "857732000890748998"

\* message.guild is None for a direct message
NoGuild == "<no guild>"

Guilds == {NoGuild, ALLOWED_GUILD_ID, "1"}

\* message.author: the relay's own user, or a member
Authors == {"client.user", "member"}

\* message.content, one character per element
MessageContents ==
    { <<"$", "p", "r", "o", "m", "p", "t", " ", "h", "i">>,
      <<"$", "P", "r", "o", "m", "p", "t", " ", "H", "i">>,
      <<"$", "p", "r", "o", "m", "p", "t", "s", " ", "h", "i">>,
      <<"$", "p", "r", "o", "m", "p", "t">>,
      <<"$", "p", "r", "o", "m", "p", "t", " ">>,
      <<"h", "i">> }

Messages == [guild : Guilds, author : Authors, content : MessageContents]

NoMessage == [guild |-> NoGuild, author |-> "member", content |-> <<>>]

\* str.lower() for the characters in use
LowerChar(c) ==
    CASE c = "P" -> "p"
      [] c = "H" -> "h"
      [] c = "Y" -> "y"
      [] c = "N" -> "n"
      [] OTHER -> c

Lower(text) == [i \in DOMAIN text |-> LowerChar(text[i])]

\* str.startswith
StartsWith(text, prefix) ==
    /\ Len(text) >= Len(prefix)
    /\ SubSeq(text, 1, Len(prefix)) = prefix

CommandPrefix == <<"$", "p", "r", "o", "m", "p", "t">>

RECURSIVE LStrip(_)
LStrip(text) ==
    IF text # <<>> /\ Head(text) = " " THEN LStrip(Tail(text)) ELSE text

RECURSIVE RStrip(_)
RStrip(text) ==
    IF text # <<>> /\ text[Len(text)] = " "
    THEN RStrip(SubSeq(text, 1, Len(text) - 1))
    ELSE text

\* str.strip()
Strip(text) == RStrip(LStrip(text))

\* The length of the run of non-blank characters text starts with.
RECURSIVE WordLen(_)
WordLen(text) ==
    IF text = <<>> \/ Head(text) = " " THEN 0 ELSE 1 + WordLen(Tail(text))

\* str.split(maxsplit=1): the first word, and the rest without its leading
\* blanks when it is not empty.
SplitOnce(text) ==
    LET a == LStrip(text)
        n == WordLen(a)
        rest == LStrip(SubSeq(a, n + 1, Len(a)))
    IN  IF a = <<>> THEN <<>>
        ELSE IF rest = <<>> THEN <<SubSeq(a, 1, n)>>
        ELSE <<SubSeq(a, 1, n), rest>>

\* prompt is None: no part of a split is empty, so the empty text is free
\* to stand for None.
NoPrompt == <<>>

\* parts[1] if len(parts) > 1 else None
PromptOf(content) ==
    LET parts == SplitOnce(content)
    IN  IF Len(parts) > 1 THEN parts[2] ELSE NoPrompt

\* Mutant of InAllowedGuild: only other guilds are turned away.
NotInOtherGuild(msg) == msg.guild = NoGuild \/ msg.guild = ALLOWED_GUILD_ID

\* not (message.guild is None or message.guild.id != ALLOWED_GUILD_ID)
InAllowedGuild(msg) == ~(msg.guild = NoGuild \/ msg.guild # ALLOWED_GUILD_ID)

\* message.author == client.user
OwnMessage(msg) == msg.author = "client.user"

\* message.content.lower().startswith("$prompt")
IsCommand(msg) == StartsWith(Lower(msg.content), CommandPrefix)

\* A text: what it says, what was put into it, and its length.
Text(what, detail, len) == [what |-> what, detail |-> detail, len |-> len]

NoText == Text("", <<>>, 0)

MissingPromptNotice == Text("Please provide a prompt after $prompt.", <<>>, 38)

CancelledNotice == Text("Message sending was cancelled.", <<>>, 30)

FixedNotices == {MissingPromptNotice, CancelledNotice}

\* response.text of the answering service
Bodies == {Text("answer", <<>>, 40), Text("long answer", <<>>, 1600)}

ErrorBody == Text("error body", <<>>, 20)

Statuses == {200, 500}

\* What the HTTP GET may do: a response, or an exception of httpx or other.
HttpOutcomes ==
    { [kind |-> "response", status |-> 200, body |-> b] : b \in Bodies }
    \cup
    { [kind |-> "response", status |-> st, body |-> ErrorBody] :
         st \in Statuses \ {200} }
    \cup
    { [kind |-> k, status |-> 0, body |-> NoText] :
         k \in {"ReadError", "ConnectError", "TimeoutException",
                "RemoteProtocolError", "Exception"} }

\* response.raise_for_status()
RaisesForStatus(status) == status >= 400

\* error_msg of the except block that catches the outcome
ErrorMessage(o) ==
    CASE o.kind = "response" ->
            Text("Server returned error {status}: {text}",
                 <<o.status, o.body.what>>, 27 + o.body.len)
      [] o.kind = "ReadError" ->
            Text("The connection to the server was interrupted.", <<>>, 151)
      [] o.kind = "ConnectError" ->
            Text("Could not connect to the server.", <<>>, 96)
      [] o.kind = "TimeoutException" ->
            Text("The request timed out after 120 seconds.", <<>>, 86)
      [] o.kind = "RemoteProtocolError" ->
            Text("An error occurred while connecting to the server: {name}",
                 <<o.kind>>, 69)
      [] OTHER ->
            Text("An unexpected error occurred: {e}", <<o.kind>>, 30 + Len(o.kind))

PreviewLimit == 1500

\* message_preview[:1500] + ("..." if len(message_preview) > 1500 else "")
Preview(text) ==
    [what |-> text.what, detail |-> text.detail,
     shown |-> IF text.len > PreviewLimit THEN PreviewLimit ELSE text.len,
     dots |-> text.len > PreviewLimit]

\* What the operator may type at the console.
OperatorAnswers ==
    { <<"y">>, <<" ", "Y", " ">>, <<"n">>, <<"y", "e", "s">> }

\* Mutant of Approved: everything but n sends the message.
ApprovedUnlessNo(response) == Strip(Lower(response)) # <<"n">>

\* response.lower().strip() == "y"
Approved(response) == Strip(Lower(response)) = <<"y">>

\* message.channel.send: the message is posted, or discord raises.
SendOutcomes == {"sent", "HTTPException"}

\* The on_message invocations running at the same time.
Invocations == {"m1", "m2"}

\* One on_message invocation: where it is, its message and prompt, the text
\* it has under confirmation or is sending, whether the send is inside the
\* try block, and what it has done (requests, previews, posts, and the
\* operator's verdicts with what confirm_send had printed of the text and
\* the invocation whose preview was the last one displayed then).
NewInvocation ==
    [pc |-> "waiting", message |-> NoMessage, prompt |-> NoPrompt,
     text |-> NoText, in_try |-> FALSE,
     requests |-> 0, previews |-> 0, posts |-> 0, verdicts |-> {}]

\* confirm_send(text) up to its await: Preview(text) is printed and input()
\* is handed to the executor; console.last is the invocation whose preview
\* was printed last, console.pending those whose input() has not returned.
Confirming(b, text, in_try) ==
    [b EXCEPT !.pc = "confirming", !.text = text, !.in_try = in_try,
              !.previews = @ + 1]

\* The guards of on_message, the split, and the GET being issued.
on_message(m) ==
    /\ bot[m].pc = "waiting"
    /\ \E msg \in Messages :
          bot' = [bot EXCEPT ![m] =
                    IF ~InAllowedGuild(msg) \/ OwnMessage(msg) \/ ~IsCommand(msg)
                    THEN [@ EXCEPT !.pc = "done", !.message = msg]
                    ELSE IF PromptOf(msg.content) = NoPrompt
                    THEN [@ EXCEPT !.pc = "sending", !.message = msg,
                                   !.text = MissingPromptNotice]
                    ELSE [@ EXCEPT !.pc = "requesting", !.message = msg,
                                   !.prompt = PromptOf(msg.content),
                                   !.requests = @ + 1]]
    /\ UNCHANGED <<console, channel, truncVars, retryVars, routeVars>>

\* The GET ends: response.text or the error message goes to confirm_send.
HttpResponse(m) ==
    /\ bot[m].pc = "requesting"
    /\ \E o \in HttpOutcomes :
          LET ok == o.kind = "response" /\ ~RaisesForStatus(o.status)
              text == IF ok THEN o.body ELSE ErrorMessage(o)
          IN  /\ bot' = [bot EXCEPT ![m] = Confirming(@, text, ok)]
              /\ console' = [last |-> m, pending |-> console.pending \cup {m}]
    /\ UNCHANGED <<channel, truncVars, retryVars, routeVars>>

\* The operator types a line: one of the input() calls waiting in the
\* executor reads it, and its confirm_send returns.
OperatorAnswer(m) ==
    /\ m \in console.pending
    /\ \E response \in OperatorAnswers :
          bot' = [bot EXCEPT ![m] =
                    LET b == [@ EXCEPT !.verdicts =
                                 @ \cup {[text |-> bot[m].text,
                                          shown |-> Preview(bot[m].text),
                                          response |-> response,
                                          displayed |-> console.last]}]
                    IN  IF Approved(response) THEN [b EXCEPT !.pc = "sending"]
                        ELSE IF b.in_try
                        THEN [b EXCEPT !.pc = "sending", !.text = CancelledNotice]
                        ELSE [b EXCEPT !.pc = "done"]]
    /\ console' = [console EXCEPT !.pending = @ \ {m}]
    /\ UNCHANGED <<channel, truncVars, retryVars, routeVars>>

\* message.channel.send(text): posted, or it raises; inside the try block
\* the exception reaches except Exception and its message is confirmed.
ChannelSend(m) ==
    /\ bot[m].pc = "sending"
    /\ \E o \in SendOutcomes :
          IF o = "sent"
          THEN /\ channel' = Append(channel, [by |-> m, text |-> bot[m].text])
               /\ bot' = [bot EXCEPT ![m].pc = "done", ![m].posts = @ + 1]
               /\ UNCHANGED console
          ELSE IF bot[m].in_try
          THEN LET text == ErrorMessage([kind |-> o, status |-> 0, body |-> NoText])
               IN  /\ bot' = [bot EXCEPT ![m] = Confirming(@, text, FALSE)]
                   /\ console' = [last |-> m, pending |-> console.pending \cup {m}]
                   /\ UNCHANGED channel
          ELSE /\ bot' = [bot EXCEPT ![m].pc = "done"]
               /\ UNCHANGED <<console, channel>>
    /\ UNCHANGED <<truncVars, retryVars, routeVars>>

InitRelay ==
    /\ TruncIdle
    /\ frame = <<>>
    /\ called = <<>>
    /\ rq = <<>>
    /\ bot = [m \in Invocations |-> NewInvocation]
    /\ console = [last |-> None, pending |-> {}]
    /\ channel = <<>>

NextRelay ==
    \/ \E m \in DOMAIN bot : on_message(m)
    \/ \E m \in DOMAIN bot : HttpResponse(m)
    \/ \E m \in DOMAIN bot : OperatorAnswer(m)
    \/ \E m \in DOMAIN bot : ChannelSend(m)

SpecRelay == InitRelay /\ [][NextRelay]_vars

(***************************************************************************)
(* Properties of truncate_documents, checked under SpecTrunc.              *)
(***************************************************************************)
\* The first k documents, rendered.
RenderedPrefix(docs, k) == [i \in 1..k |-> Render(docs[i][1], docs[i][2])]

\* The sum of the token counts of the first k rendered documents.
RECURSIVE PrefixTokens(_, _, _)
PrefixTokens(docs, enc, k) ==
    IF k = 0 THEN 0
    ELSE PrefixTokens(docs, enc, k - 1)
         + token_count(Render(docs[k][1], docs[k][2]), enc)

\* C1: the token count of the returned context block, the selected entries
\* joined with line breaks, is at most the budget.
C1_BlockWithinBudget ==
    t_pc = "done" => token_count(out_block, in_enc) <= in_budget

\* C2: the selected entries are exactly the first k rendered documents, in
\* input order, for some k from 0 to the number of documents; the block is
\* those entries joined.
C2_SelectedIsPrefix ==
    t_pc = "done" =>
        \E k \in 0..Len(in_docs) :
            /\ out_selected = RenderedPrefix(in_docs, k)
            /\ out_block = Join(RenderedPrefix(in_docs, k), NL)

\* A document after the first excluded one would have fitted, and is left out.
C2_Witness ==
    /\ t_pc = "done"
    /\ \E j \in 1..Len(in_docs) :
          /\ j > Len(out_selected) + 1
          /\ PrefixTokens(in_docs, in_enc, Len(out_selected))
               + token_count(Render(in_docs[j][1], in_docs[j][2]), in_enc) <= in_budget

\* C3: the selection is the longest prefix whose summed per-entry token
\* counts stay within the budget: every selected prefix sums to at most the
\* budget (exactly the budget included), the first entry left out would
\* bring the sum above it, and a first document above the budget alone
\* gives the empty block.
C3_LongestPrefixWithinBudget ==
    t_pc = "done" =>
        LET k == Len(out_selected)
        IN  /\ k <= Len(in_docs)
            /\ out_selected = RenderedPrefix(in_docs, k)
            /\ \A i \in 0..k : PrefixTokens(in_docs, in_enc, i) <= in_budget
            /\ k < Len(in_docs) => PrefixTokens(in_docs, in_enc, k + 1) > in_budget
            /\ (Len(in_docs) > 0 /\ PrefixTokens(in_docs, in_enc, 1) > in_budget)
                   => out_block = <<>>

\* The last selected entry lands exactly on the budget and another follows.
C3_Witness ==
    /\ t_pc = "done"
    /\ Len(out_selected) >= 2
    /\ Len(out_selected) < Len(in_docs)
    /\ PrefixTokens(in_docs, in_enc, Len(out_selected)) = in_budget

(***************************************************************************)
(* Properties of with_retry, checked under SpecRetry.                      *)
(***************************************************************************)
\* C4: when the provider rate-limits K < max_retries times and then
\* succeeds, with_retry returns that success after K + 1 invocations and K
\* waits, and it does not give up while fewer than max_retries rate limits
\* have been raised; as long as no wait was taken from a header, each wait
\* is at least the one before and at most 60 seconds.
C4_RetriesThenSuccess ==
    \A r \in DOMAIN frame :
        LET f == frame[r]
        IN  /\ (f.pc = "returned" /\ f.result.how = "return") =>
                  /\ f.result.value = f.calls
                  /\ f.calls = f.rate_limited + 1
                  /\ f.sleeps = f.rate_limited
            /\ (f.other_errors = 0 /\ f.rate_limited < f.max_retries) =>
                  /\ f.pc # "raised"
                  /\ f.result.how \in {"pending", "return"}
            /\ (~f.from_header) =>
                  /\ f.prev_wait <= f.wait_time
                  /\ f.wait_time <= BackoffCap
                  /\ f.sleeps >= 1 => f.wait_time >= 1

\* Seven rate limits without a timing header, the last wait at the cap,
\* then the success is returned.
C4_Witness ==
    \E r \in DOMAIN frame :
        /\ frame[r].pc = "returned"
        /\ frame[r].result.how = "return"
        /\ frame[r].rate_limited >= 7
        /\ frame[r].sleeps = frame[r].rate_limited
        /\ ~frame[r].from_header
        /\ frame[r].wait_time = BackoffCap

\* C5: with max_retries >= 1 and a provider that rate-limits every time,
\* with_retry raises the last rate-limit error after exactly max_retries
\* invocations and max_retries - 1 waits; there is never one more
\* invocation, and no wait after the last failed attempt.
C5_ExhaustedAfterMaxRetries ==
    \A r \in DOMAIN frame :
        LET f == frame[r]
        IN  f.max_retries >= 1 =>
              /\ f.calls <= f.max_retries
              /\ f.sleeps <= f.max_retries - 1
              /\ f.retry_count >= f.max_retries =>
                    /\ f.pc = "raised"
                    /\ f.result = Raised(f.e)
              /\ (f.pc = "raised" /\ f.result.e.kind = "RateLimitError") =>
                    /\ f.result.e.id = f.calls
                    /\ f.calls = f.max_retries
                    /\ f.rate_limited = f.max_retries
                    /\ f.sleeps = f.max_retries - 1

\* The default ten attempts were all rate-limited and the error is raised.
C5_Witness ==
    \E r \in DOMAIN frame :
        /\ frame[r].max_retries = DefaultMaxRetries
        /\ frame[r].pc = "raised"
        /\ frame[r].result.e.kind = "RateLimitError"
        /\ frame[r].calls = DefaultMaxRetries

\* C6: once an invocation has raised an error that is no rate limit,
\* with_retry has ended raising that same error: there is no invocation
\* and no wait after it.
C6_OtherErrorPropagates ==
    \A r \in DOMAIN frame :
        LET f == frame[r]
        IN  f.other_errors >= 1 =>
              /\ f.other_errors = 1
              /\ f.pc = "raised"
              /\ f.result = Raised(OtherError(f.calls))
              /\ f.calls = f.rate_limited + 1
              /\ f.sleeps = f.rate_limited

\* The error comes on a later attempt, after two rate-limit retries.
C6_Witness ==
    \E r \in DOMAIN frame :
        /\ frame[r].other_errors = 1
        /\ frame[r].rate_limited = 2
        /\ frame[r].pc = "raised"

\* C7: for every max_retries, zero and negative included, with_retry ends
\* either returning the value of a successful invocation or raising the
\* provider's error; it never returns without a successful invocation.
C7_ReturnsOnlySuccess ==
    \A r \in DOMAIN frame :
        LET f == frame[r]
        IN  /\ f.pc = "returned" =>
                  /\ f.result.how = "return"
                  /\ f.calls >= 1
                  /\ f.result.value = f.calls
            /\ f.pc = "raised" =>
                  /\ f.result.how = "raise"
                  /\ f.result.e \in RateLimitErrors(f.calls) \cup {OtherError(f.calls)}

(***************************************************************************)
(* Properties of mainroute, checked under Spec.                            *)
(***************************************************************************)
\* C8: a request whose prompt is missing or empty is answered with status
\* 400 and calls neither the embedding provider, the store nor the
\* completion provider.
C8_MissingPromptRejected ==
    \A r \in DOMAIN rq :
        rq[r].prompt \in {None, ""} =>
            /\ called[r] = {}
            /\ frame[r].pc = "idle"
            /\ rq[r].pc \in {"start", "done"}
            /\ rq[r].pc = "done" => rq[r].responses = <<MissingPromptResponse>>

\* The empty prompt has been answered.
C8_Witness ==
    \E r \in DOMAIN rq :
        /\ rq[r].prompt = ""
        /\ rq[r].pc = "done"
        /\ rq[r].responses[1].status = 400

\* C9: when the store gives no matches the request is answered with status
\* 200 and the fixed no-results body, and the completion provider is not
\* invoked for it.
C9_NoMatchesShortCircuit ==
    \A r \in DOMAIN rq :
        rq[r].answer.kind \in {"None", "no list", "empty list"} =>
            /\ rq[r].prompt \notin {None, ""}
            /\ rq[r].pc = "done"
            /\ rq[r].responses = <<NoResultsResponse>>
            /\ "chat.completions.create" \notin called[r]
            /\ frame[r].pc = "idle"

\* The store gave one empty list of records.
C9_Witness ==
    \E r \in DOMAIN rq :
        /\ rq[r].answer.kind = "empty list"
        /\ "collection.query" \in called[r]
        /\ rq[r].pc = "done"

\* C10: a request has no response until it is done and then exactly one,
\* of status 200, 400 or 500; until then it is at a step of the handler or
\* inside a with_retry call, which can go on; once a step
\* after the prompt check has failed, the request goes through the handler
\* and its one response is the 500 carrying that failure's description.
C10_OneResponsePerRequest ==
    \A r \in DOMAIN rq :
        LET q == rq[r]
        IN  /\ Len(q.responses) <= 1
            /\ q.pc = "done" <=> Len(q.responses) = 1
            /\ q.pc \in {"start", "tokenizer", "embedding", "query", "assemble",
                        "completing", "except", "done"}
            /\ q.pc \in {"embedding", "completing"} <=> frame[r].pc # "idle"
            /\ \A i \in 1..Len(q.responses) : q.responses[i].status \in {200, 400, 500}
            /\ q.e # None =>
                  /\ q.pc \in {"except", "done"}
                  /\ q.pc = "done" => q.responses = <<ErrorResponse(q.e)>>
                  /\ \A i \in 1..Len(q.responses) : q.responses[i].status = 500
            /\ q.e = None =>
                  \A i \in 1..Len(q.responses) : q.responses[i].status # 500

\* The completion call ran out of retries and the request got its 500.
C10_Witness ==
    \E r \in DOMAIN rq :
        /\ rq[r].e = "RateLimitError"
        /\ "chat.completions.create" \in called[r]
        /\ rq[r].pc = "done"
        /\ rq[r].responses = <<ErrorResponse("RateLimitError")>>

\* The block of all the given documents: each as "<date>: <content>", in
\* their order, one per line.
RECURSIVE AllEntriesBlock(_)
AllEntriesBlock(docs) ==
    IF docs = <<>> THEN <<>>
    ELSE LET entry == docs[1][1] \o <<":", " ">> \o docs[1][2]
         IN  IF Len(docs) = 1 THEN entry
             ELSE entry \o <<NL>> \o AllEntriesBlock(Tail(docs))

\* The request got n >= 1 documents totalling fewer tokens than the context
\* budget, no provider invocation raised, and the first choice has a text.
C11_Case(q) ==
    /\ q.pc = "done"
    /\ q.prompt \notin {None, ""}
    /\ q.answer.kind = "records"
    /\ Len(q.answer.docs) >= 1
    /\ PrefixTokens(q.answer.docs, q.enc, Len(q.answer.docs)) < context_budget
    /\ ~q.provider_failed
    /\ q.e = None

\* C11: in that case the context block sent to the completion provider is
\* all n documents rendered "<date>: <content>" in their returned order,
\* the completion provider is invoked exactly once, and the one response is
\* status 200 with the first choice's text unchanged.
C11_AllDocumentsAnswered ==
    \A r \in DOMAIN rq :
        C11_Case(rq[r]) =>
            /\ rq[r].knowledge = AllEntriesBlock(rq[r].answer.docs)
            /\ rq[r].chat_calls = 1
            /\ "chat.completions.create" \in called[r]
            /\ rq[r].response_text \in CompletionContents \ {None}
            /\ rq[r].responses =
                   <<[status |-> 200,
                      body |-> [text |-> rq[r].response_text, detail |-> ""]]>>

\* Three documents were returned and the request was answered.
C11_Witness ==
    \E r \in DOMAIN rq :
        /\ C11_Case(rq[r])
        /\ Len(rq[r].answer.docs) = 3
        /\ rq[r].answer.docs[1] # rq[r].answer.docs[2]
        /\ rq[r].responses[1].status = 200

(***************************************************************************)
(* More properties of with_retry, checked under SpecRetry.                 *)
(***************************************************************************)
\* The number of seconds a header text states.
Seconds(text) == IF text = "7" THEN 7 ELSE IF text = "90" THEN 90 ELSE -1

\* C14, as claimed: during each wait the duration is the value of the
\* retry-after header if the error's response carries one, otherwise the
\* value of x-ratelimit-reset-after if it carries one, otherwise the backoff.
C14_WaitFromHeaders ==
    \A r \in DOMAIN frame :
        LET f == frame[r]
        IN  f.pc = "sleep" =>
              IF f.e.has_response /\ f.e.retry_after # Absent
              THEN f.wait_time = Seconds(f.e.retry_after)
              ELSE IF f.e.has_response /\ f.e.reset_after # Absent
              THEN f.wait_time = Seconds(f.e.reset_after)
              ELSE f.wait_time = f.backoff

\* C14, amended: the duration is the value of retry-after if the response
\* carries one that is a number; if it carries none, the value of
\* x-ratelimit-reset-after if that is a number; in every other case (no
\* response, no timing header, or the header looked at is no number) the
\* backoff.
C14_WaitFromNumericHeaders ==
    \A r \in DOMAIN frame :
        LET f == frame[r]
            numeric == {"7", "90"}
        IN  f.pc = "sleep" =>
              IF f.e.has_response /\ f.e.retry_after \in numeric
              THEN f.wait_time = Seconds(f.e.retry_after)
              ELSE IF f.e.has_response /\ f.e.retry_after = Absent
                      /\ f.e.reset_after \in numeric
              THEN f.wait_time = Seconds(f.e.reset_after)
              ELSE f.wait_time = f.backoff

\* Both headers are numbers and the wait is retry-after's.
C14_Witness ==
    \E r \in DOMAIN frame :
        /\ frame[r].pc = "sleep"
        /\ frame[r].e.retry_after = "7"
        /\ frame[r].e.reset_after = "90"
        /\ frame[r].wait_time = 7
        /\ frame[r].backoff > 7

RECURSIVE PowerOfTwo(_)
PowerOfTwo(n) == IF n = 0 THEN 1 ELSE 2 * PowerOfTwo(n - 1)

\* C15: the backoff is 1 at first and min(2 * backoff, 60) after every wait,
\* whether the wait was the backoff or came from a header: during the i-th
\* wait it is min(2^(i-1), 60) and after it min(2^i, 60); it is never above
\* 60, and never below the wait of a backoff before it.
C15_BackoffDoubling ==
    \A r \in DOMAIN frame :
        LET f == frame[r]
            done == IF f.pc = "sleep" THEN f.sleeps - 1 ELSE f.sleeps
        IN  f.pc # "idle" =>
              /\ f.backoff = IF PowerOfTwo(done) < 60 THEN PowerOfTwo(done) ELSE 60
              /\ f.backoff >= 1
              /\ f.backoff <= 60

\* Nine waits, one of them from a header, and the backoff at its cap.
C15_Witness ==
    \E r \in DOMAIN frame :
        /\ frame[r].sleeps = 9
        /\ frame[r].from_header
        /\ frame[r].pc = "loop"
        /\ frame[r].backoff = 60

\* The header with_retry looks at does not give a number: retry-after if
\* present, else x-ratelimit-reset-after.
C19_Case(e) ==
    /\ e.has_response
    /\ \/ e.retry_after \in {"soon", Unreadable}
       \/ e.retry_after = Absent /\ e.reset_after = "soon"

\* C19: a rate-limit error whose timing header is no number, or cannot be
\* read, does not make with_retry fail: unless the attempt was the last one
\* allowed, it waits for the backoff, also when retry-after is no number and
\* x-ratelimit-reset-after is one; the attempt is counted, and with_retry
\* never raises anything but the provider's error.
C19_UnparseableHeaderFallsBack ==
    \A r \in DOMAIN frame :
        LET f == frame[r]
        IN  /\ (f.pc = "sleep" /\ C19_Case(f.e)) =>
                  /\ f.wait_time = f.backoff
                  /\ f.retry_count = f.rate_limited
                  /\ f.retry_count = f.sleeps
                  /\ f.retry_count < f.max_retries
            /\ f.pc = "raised" =>
                  /\ f.result.e.kind \in {"RateLimitError", "APIError"}
                  /\ f.result.e.kind = "RateLimitError" => f.retry_count = f.max_retries
            /\ f.retry_count <= f.rate_limited
            /\ f.pc \in {"loop", "sleep", "returned", "raised"} =>
                  f.retry_count = f.rate_limited

\* retry-after is no number, x-ratelimit-reset-after is 90, and the wait is
\* the backoff of the third retry.
C19_Witness ==
    \E r \in DOMAIN frame :
        /\ frame[r].pc = "sleep"
        /\ frame[r].e.retry_after = "soon"
        /\ frame[r].e.reset_after = "90"
        /\ frame[r].retry_count = 3
        /\ frame[r].wait_time = 4

(***************************************************************************)
(* The order of the steps of a request, checked under Spec.                *)
(***************************************************************************)
StepOrder == <<"embed", "query", "truncate", "completion">>

\* C17: the steps of a request are completed in the order embed, store
\* query, truncate, completion, response: the store is queried only after
\* the embedding call has returned, the completion provider is invoked only
\* after the store has given a non-empty list and truncation is done, and
\* while a with_retry call is running or waiting no later step has begun
\* and no response exists.
C17_StepsInOrder ==
    \A r \in DOMAIN rq :
        LET q == rq[r]
            f == frame[r]
        IN  /\ \E k \in 0..4 :
                  \/ q.trace = SubSeq(StepOrder, 1, k)
                  \/ q.trace = SubSeq(StepOrder, 1, k) \o <<"response">>
            /\ "collection.query" \in called[r] =>
                  /\ Len(q.trace) >= 1
                  /\ q.trace[1] = "embed"
                  /\ "embeddings.create" \in called[r]
            /\ "chat.completions.create" \in called[r] =>
                  /\ Len(q.trace) >= 3
                  /\ SubSeq(q.trace, 1, 3) = SubSeq(StepOrder, 1, 3)
                  /\ q.answer.kind = "records"
                  /\ Len(q.answer.docs) >= 1
                  /\ "collection.query" \in called[r]
            /\ (f.pc # "idle" /\ f.api_call = "embeddings.create") =>
                  /\ q.pc = "embedding"
                  /\ q.trace = <<>>
                  /\ called[r] \subseteq {"embeddings.create"}
            /\ (f.pc # "idle" /\ f.api_call = "chat.completions.create") =>
                  /\ q.pc = "completing"
                  /\ q.trace = SubSeq(StepOrder, 1, 3)
            /\ f.pc # "idle" => q.responses = <<>>
            /\ f.pc = "idle" => f.api_call = "none"

\* The completion call is waiting to retry after the embedding call had
\* been retried too.
C17_Witness ==
    \E r \in DOMAIN rq :
        /\ frame[r].pc = "sleep"
        /\ frame[r].api_call = "chat.completions.create"
        /\ rq[r].provider_failed
        /\ rq[r].trace = SubSeq(StepOrder, 1, 3)

(***************************************************************************)
(* The scope of the retry state, checked under SpecConcurrent.             *)
(***************************************************************************)
\* The sleeps of a call that have ended.
SleepsEnded(f) == IF f.pc = "sleep" THEN f.sleeps - 1 ELSE f.sleeps

\* The rate-limit errors of a call its except block has counted.
ErrorsCounted(f) == IF f.pc = "except" THEN f.rate_limited - 1 ELSE f.rate_limited

\* C16: the retry state belongs to one with_retry call: retry_count is the
\* number of rate-limit errors this call itself has met and backoff is 1
\* doubled once per sleep of this call, whatever the request's earlier call
\* and the other requests' calls have done; a call that has not yet invoked
\* the provider has retry_count 0 and backoff 1, and a call gives up on a
\* rate-limit error only when it has itself made max_retries attempts.
C16_RetryStateScoped ==
    \A r \in DOMAIN frame :
        LET f == frame[r]
        IN  f.pc # "idle" =>
              /\ f.retry_count = ErrorsCounted(f)
              /\ f.backoff = IF PowerOfTwo(SleepsEnded(f)) < BackoffCap
                             THEN PowerOfTwo(SleepsEnded(f)) ELSE BackoffCap
              /\ f.calls = 0 => (f.retry_count = 0 /\ f.backoff = 1)
              /\ f.calls <= f.max_retries
              /\ (f.pc = "raised" /\ f.result.e.kind = "RateLimitError") =>
                    (f.calls = f.max_retries /\ f.rate_limited = f.max_retries)

\* The completion call of one request starts after its embedding call was
\* rate limited, while the other request's call is waiting to retry.
C16_Witness ==
    /\ frame["r1"].api_call = "chat.completions.create"
    /\ frame["r1"].calls = 0
    /\ frame["r1"].earlier > 0
    /\ frame["r2"].pc = "sleep"
    /\ frame["r2"].retry_count = 1

(***************************************************************************)
(* The relay, checked under SpecRelay.                                     *)
(***************************************************************************)
\* The answers that read y once lowered and stripped.
YesAnswers == { <<"y">>, <<" ", "Y", " ">> }

\* The texts confirm_send returned True for in invocation m.
ApprovedTexts(m) == { v.text : v \in { w \in bot[m].verdicts : w.response \in YesAnswers } }

\* The texts confirm_send returned False for in invocation m.
DeclinedTexts(m) == { v.text : v \in { w \in bot[m].verdicts : w.response \notin YesAnswers } }

\* C12 as stated: every message posted to the channel was shown through
\* confirm_send and approved by the operator before.
C12_EveryPostApproved ==
    \A i \in DOMAIN channel : channel[i].text \in ApprovedTexts(channel[i].by)

\* C12: every message posted to the channel is a text confirm_send returned
\* True for in the same invocation, or one of the two fixed notices, which
\* are posted without confirmation: the missing-prompt notice, by an
\* invocation whose command has no prompt and which sends no request, and
\* the cancellation notice, by an invocation whose reply the operator
\* declined. A text the operator only declined is not posted.
C12_PostsApprovedOrFixedNotice ==
    \A i \in DOMAIN channel :
        LET m == channel[i].by
            text == channel[i].text
        IN  /\ text \in ApprovedTexts(m) \cup FixedNotices
            /\ text \in DeclinedTexts(m) => text \in ApprovedTexts(m)
            /\ text = MissingPromptNotice =>
                  /\ bot[m].prompt = NoPrompt
                  /\ bot[m].requests = 0
                  /\ bot[m].previews = 0
            /\ text = CancelledNotice =>
                  /\ \E b \in Bodies : b \in DeclinedTexts(m)
                  /\ ApprovedTexts(m) = {}

\* One invocation has posted a reply approved with " Y ", the other the
\* cancellation notice after its reply was declined.
C12_Witness ==
    \E i, j \in DOMAIN channel :
        /\ channel[i].text \in Bodies
        /\ \E v \in bot[channel[i].by].verdicts :
              v.text = channel[i].text /\ v.response = <<" ", "Y", " ">>
        /\ channel[j].text = CancelledNotice

\* C18: an invocation whose message is a direct message, is from another
\* guild, is the relay's own, or does not start with $prompt once lowered,
\* sends no request, displays no preview, waits for no input and posts
\* nothing.
C18_OnlyAddressedMessagesAct ==
    \A m \in DOMAIN bot :
        LET msg == bot[m].message
            lowered == Lower(msg.content)
        IN  (/\ bot[m].pc # "waiting"
             /\ \/ msg.guild # ALLOWED_GUILD_ID
                \/ msg.author = "client.user"
                \/ Len(lowered) < 7
                \/ SubSeq(lowered, 1, 7) # <<"$", "p", "r", "o", "m", "p", "t">>)
            => /\ bot[m].pc = "done"
               /\ bot[m].requests = 0
               /\ bot[m].previews = 0
               /\ bot[m].posts = 0
               /\ bot[m].verdicts = {}
               /\ m \notin console.pending
               /\ \A i \in DOMAIN channel : channel[i].by # m

\* A direct message with a command was dropped while the other invocation,
\* for the same command in the allowed guild, has posted.
C18_Witness ==
    \E m, n \in DOMAIN bot :
        /\ bot[m].pc = "done"
        /\ bot[m].message.guild = NoGuild
        /\ IsCommand(bot[m].message)
        /\ bot[n].message.content = bot[m].message.content
        /\ bot[n].posts = 1

\* C20: at most one confirmation is waiting for the operator's input, and
\* the operator's answer goes to the confirmation whose preview was
\* displayed last.
C20_OneConfirmationAtATime ==
    /\ Cardinality(console.pending) <= 1
    /\ \A m \in DOMAIN bot : \A v \in bot[m].verdicts : v.displayed = m

====
